---- MODULE Spec2Model ----
(***************************************************************************)
(* A model of src/main.py: the Account and Bank classes of the banking     *)
(* program, the JSON snapshot they save and load, and the amounts they     *)
(* compute with.                                                           *)
(*                                                                         *)
(* Amounts are Python floats: main() reads every amount with float(input), *)
(* and json.load gives floats back.  A float is modelled as a binary       *)
(* floating-point number of Precision significant bits whose unit in the   *)
(* last place is at least 1, with round-half-to-even, overflow to          *)
(* infinity, and NaN: IEEE-754 double arithmetic scaled down from 53 bits. *)
(***************************************************************************)
EXTENDS Integers, Sequences, FiniteSets, TLC

VARIABLES
    accounts,   \* Bank.accounts: the dict, as the sequence of its items in insertion order
    file,       \* bank_data.json: whether it exists, and the JSON object in it
    now,        \* the last reading of the wall clock (datetime.now(), in seconds)
    last,       \* the call made last: the method and its arguments
    result,     \* how that call ended: the exception it raised, or none
    calls,      \* the number of calls made so far
    pc          \* where main() is: "start", "menu", "done", "crashed"; "api" when the Bank is called directly

vars == <<accounts, file, now, last, result, calls, pc>>

(***************************************************************************)
(* Bounds of the model.                                                    *)
(***************************************************************************)
Precision == 2      \* significant bits of a float (53 in CPython)
MaxExp == 1         \* largest exponent of a finite float (971 in CPython)
MaxHist == 2        \* transactions kept per account
MaxClock == 1       \* seconds the wall clock runs
MaxCalls == 3       \* calls made to the bank

(***************************************************************************)
(* Floats.                                                                 *)
(***************************************************************************)
F(n) == [k |-> "fin", v |-> n]
PosInf == [k |-> "inf", v |-> 1]
NegInf == [k |-> "inf", v |-> -1]
NaN == [k |-> "nan", v |-> 0]

RECURSIVE Pow2(_)
Pow2(n) == IF n <= 0 THEN 1 ELSE 2 * Pow2(n - 1)

MaxFinite == (Pow2(Precision) - 1) * Pow2(MaxExp)

\* The exponent of the binade of a magnitude m: the least e with m < 2^(Precision+e).
RECURSIVE Binade(_, _)
Binade(m, e) == IF m < Pow2(Precision + e) THEN e ELSE Binade(m, e + 1)

\* The magnitude m rounded to Precision significant bits, ties to even.
RoundMag(m) ==
    LET q == Pow2(Binade(m, 0))
        lo == (m \div q) * q
        rem == m - lo
    IN  IF 2 * rem < q THEN lo
        ELSE IF 2 * rem > q THEN lo + q
        ELSE IF (m \div q) % 2 = 0 THEN lo ELSE lo + q

\* The float nearest to the integer n; beyond the largest finite float, infinity.
Round(n) ==
    LET m == IF n < 0 THEN -n ELSE n
        r == RoundMag(m)
    IN  IF r > MaxFinite THEN (IF n < 0 THEN NegInf ELSE PosInf)
        ELSE F(IF n < 0 THEN -r ELSE r)

\* x + y on floats.
Fadd(x, y) ==
    IF x.k = "nan" \/ y.k = "nan" THEN NaN
    ELSE IF x.k = "inf" /\ y.k = "inf" THEN (IF x.v = y.v THEN x ELSE NaN)
    ELSE IF x.k = "inf" THEN x
    ELSE IF y.k = "inf" THEN y
    ELSE Round(x.v + y.v)

Fneg(x) == IF x.k = "nan" THEN NaN ELSE [k |-> x.k, v |-> -x.v]

\* x - y on floats.
Fsub(x, y) == Fadd(x, Fneg(y))

\* The order of the floats that are numbers: -inf < every finite < +inf.
Rank(x) == IF x.k = "inf" THEN x.v * (MaxFinite + 1) ELSE x.v

\* x <= y and x > y on floats: every comparison with NaN is False.
Fle(x, y) == x.k # "nan" /\ y.k # "nan" /\ Rank(x) <= Rank(y)
Fgt(x, y) == x.k # "nan" /\ y.k # "nan" /\ Rank(x) > Rank(y)

(***************************************************************************)
(* The inputs the calls are made with.                                     *)
(***************************************************************************)
Ids == {"1001", "1002"}
Names == {"Asha", "Ravi"}
Amounts == {F(-1), F(0), F(1), PosInf}

(***************************************************************************)
(* Outcomes of a call: the exception raised, with its message.             *)
(***************************************************************************)
Ok == [exc |-> "None", msg |-> ""]
Raise(exc, msg) == [exc |-> exc, msg |-> msg]
InsufficientFundsError == Raise("InsufficientFundsError", "Insufficient funds for withdrawal.")
AccountNotFoundError == Raise("AccountNotFoundError", "Account not found.")
DepositNotPositive == Raise("ValueError", "Deposit amount must be positive.")
WithdrawalNotPositive == Raise("ValueError", "Withdrawal amount must be positive.")
TransferNotPositive == Raise("ValueError", "Transfer amount must be positive.")
AccountExists == Raise("ValueError", "Account number already exists.")
SameAccount == Raise("ValueError", "Cannot transfer to the same account.")

(***************************************************************************)
(* class Account                                                           *)
(***************************************************************************)
\* Account.__init__
Account(account_number, name, balance) ==
    [account_number |-> account_number, name |-> name, balance |-> balance,
     transactions |-> <<>>]

\* A history entry as deposit and withdraw build it: a tuple of the formatted
\* time and the description, which embeds the amount.
Entry(ts, verb, amount) ==
    [py |-> "tuple", ts |-> ts, desc |-> [verb |-> verb, amount |-> amount]]

\* Mutation of NotPositive: the test written amount < 0, which lets zero through.
NotPositive_strict(amount) == Fgt(F(0), amount)

\* The amount test of deposit and withdraw: amount <= 0.
NotPositive(amount) == Fle(amount, F(0))

\* The funds test of withdraw: amount > self.balance.
Exceeds(amount, balance) == Fgt(amount, balance)

\* Mutation of deposit: the history assigned instead of appended to.
deposit_replaces_history(acc, amount, ts) ==
    IF NotPositive(amount) THEN [acc |-> acc, result |-> DepositNotPositive]
    ELSE [acc |-> [acc EXCEPT !.balance = Fadd(acc.balance, amount),
                              !.transactions = <<Entry(ts, "Deposited", amount)>>],
          result |-> Ok]

\* Account.deposit, the clock reading ts: the account afterwards and the outcome.
deposit(acc, amount, ts) ==
    IF NotPositive(amount) THEN [acc |-> acc, result |-> DepositNotPositive]
    ELSE [acc |-> [acc EXCEPT !.balance = Fadd(acc.balance, amount),
                              !.transactions = Append(@, Entry(ts, "Deposited", amount))],
          result |-> Ok]

\* Account.withdraw, the clock reading ts: the account afterwards and the outcome.
withdraw(acc, amount, ts) ==
    IF NotPositive(amount) THEN [acc |-> acc, result |-> WithdrawalNotPositive]
    ELSE IF Exceeds(amount, acc.balance) THEN [acc |-> acc, result |-> InsufficientFundsError]
    ELSE [acc |-> [acc EXCEPT !.balance = Fsub(acc.balance, amount),
                              !.transactions = Append(@, Entry(ts, "Withdrew", amount))],
          result |-> Ok]

(***************************************************************************)
(* The dict Bank.accounts: its items, in insertion order.                  *)
(***************************************************************************)
Keys(d) == {d[i].key : i \in 1..Len(d)}
Has(d, k) == k \in Keys(d)
IndexOf(d, k) == CHOOSE i \in 1..Len(d) : d[i].key = k
Get(d, k) == d[IndexOf(d, k)].acc
\* d[k] = acc: a present key keeps its place, a new key goes last.
Put(d, k, acc) ==
    IF Has(d, k) THEN [d EXCEPT ![IndexOf(d, k)].acc = acc]
    ELSE Append(d, [key |-> k, acc |-> acc])

(***************************************************************************)
(* class Bank.  Each method is given as the dict afterwards and the        *)
(* outcome of the call.                                                    *)
(***************************************************************************)
\* Mutation of create_account: no test for a present identifier, so it overwrites.
create_account_overwrites(d, account_number, name, initial_deposit) ==
    [accounts |-> Put(d, account_number, Account(account_number, name, initial_deposit)),
     result |-> Ok]

\* Bank.get_account: the outcome; the account it returns is Get(d, account_number).
get_account(d, account_number) ==
    IF ~Has(d, account_number) THEN AccountNotFoundError ELSE Ok

\* Bank.create_account
create_account(d, account_number, name, initial_deposit) ==
    IF Has(d, account_number) THEN [accounts |-> d, result |-> AccountExists]
    ELSE [accounts |-> Put(d, account_number, Account(account_number, name, initial_deposit)),
          result |-> Ok]


\* Mutation of deposit_to_account: an unknown identifier gets an account opened
\* for it (self.accounts.setdefault) instead of raising.
deposit_to_account_creates(d, account_number, amount, ts) ==
    LET d0 == IF Has(d, account_number) THEN d
              ELSE Put(d, account_number, Account(account_number, "", F(0)))
        r == deposit(Get(d0, account_number), amount, ts)
    IN  [accounts |-> Put(d0, account_number, r.acc), result |-> r.result]

\* Bank.deposit_to_account
deposit_to_account(d, account_number, amount, ts) ==
    IF get_account(d, account_number) # Ok
    THEN [accounts |-> d, result |-> get_account(d, account_number)]
    ELSE LET r == deposit(Get(d, account_number), amount, ts)
         IN  [accounts |-> Put(d, account_number, r.acc), result |-> r.result]

\* Bank.withdraw_from_account
withdraw_from_account(d, account_number, amount, ts) ==
    IF get_account(d, account_number) # Ok
    THEN [accounts |-> d, result |-> get_account(d, account_number)]
    ELSE LET r == withdraw(Get(d, account_number), amount, ts)
         IN  [accounts |-> Put(d, account_number, r.acc), result |-> r.result]

\* Mutation of transfer: the source is debited before the destination is looked up.
transfer_debits_first(d, from_acc_no, to_acc_no, amount, t1, t2) ==
    IF from_acc_no = to_acc_no THEN [accounts |-> d, result |-> SameAccount]
    ELSE IF get_account(d, from_acc_no) # Ok
    THEN [accounts |-> d, result |-> get_account(d, from_acc_no)]
    ELSE IF NotPositive(amount) THEN [accounts |-> d, result |-> TransferNotPositive]
    ELSE LET w == withdraw(Get(d, from_acc_no), amount, t1)
             d1 == Put(d, from_acc_no, w.acc)
             p == deposit(Get(d1, to_acc_no), amount, t2)
         IN  IF w.result # Ok THEN [accounts |-> d, result |-> w.result]
             ELSE IF get_account(d1, to_acc_no) # Ok
             THEN [accounts |-> d1, result |-> get_account(d1, to_acc_no)]
             ELSE [accounts |-> Put(d1, to_acc_no, p.acc), result |-> p.result]

\* Mutation of transfer: the amount is tested before the accounts are looked up.
transfer_tests_amount_first(d, from_acc_no, to_acc_no, amount, t1, t2) ==
    IF from_acc_no = to_acc_no THEN [accounts |-> d, result |-> SameAccount]
    ELSE IF NotPositive(amount) THEN [accounts |-> d, result |-> TransferNotPositive]
    ELSE IF get_account(d, from_acc_no) # Ok
    THEN [accounts |-> d, result |-> get_account(d, from_acc_no)]
    ELSE IF get_account(d, to_acc_no) # Ok
    THEN [accounts |-> d, result |-> get_account(d, to_acc_no)]
    ELSE LET w == withdraw(Get(d, from_acc_no), amount, t1)
             d1 == Put(d, from_acc_no, w.acc)
             p == deposit(Get(d1, to_acc_no), amount, t2)
         IN  IF w.result # Ok THEN [accounts |-> d, result |-> w.result]
             ELSE [accounts |-> Put(d1, to_acc_no, p.acc), result |-> p.result]

\* Bank.transfer; t1 and t2 are the clock readings of the withdrawal and the deposit.
transfer(d, from_acc_no, to_acc_no, amount, t1, t2) ==
    IF from_acc_no = to_acc_no THEN [accounts |-> d, result |-> SameAccount]
    ELSE IF get_account(d, from_acc_no) # Ok
    THEN [accounts |-> d, result |-> get_account(d, from_acc_no)]
    ELSE IF get_account(d, to_acc_no) # Ok
    THEN [accounts |-> d, result |-> get_account(d, to_acc_no)]
    ELSE IF NotPositive(amount) THEN [accounts |-> d, result |-> TransferNotPositive]
    ELSE LET w == withdraw(Get(d, from_acc_no), amount, t1)
             d1 == Put(d, from_acc_no, w.acc)
             p == deposit(Get(d1, to_acc_no), amount, t2)
         IN  IF w.result # Ok THEN [accounts |-> d, result |-> w.result]
             ELSE [accounts |-> Put(d1, to_acc_no, p.acc), result |-> p.result]

\* Bank.view_account: reads and prints, changes nothing.
view_account(d, account_number) ==
    [accounts |-> d, result |-> get_account(d, account_number)]

(***************************************************************************)
(* The JSON snapshot.  A JSON object is the sequence of its members, a     *)
(* member [key, value]; has is the set of fields the value holds.  A JSON  *)
(* array carries no mark of the Python sequence it was written from.       *)
(***************************************************************************)
AllFields == {"name", "balance", "transactions"}

\* json.dump of one history entry: a tuple or a list becomes an array.
DumpEntry(e) == <<e.ts, e.desc>>
\* json.load of one array: a list.
LoadEntry(a) == [py |-> "list", ts |-> a[1], desc |-> a[2]]

DumpTransactions(t) == [i \in 1..Len(t) |-> DumpEntry(t[i])]
LoadTransactions(a) == [i \in 1..Len(a) |-> LoadEntry(a[i])]

\* The dict comprehension of save_data, as json.dump writes it.
DumpAccounts(d) ==
    [i \in 1..Len(d) |->
        [key |-> d[i].key,
         value |-> [has |-> AllFields,
                    name |-> d[i].acc.name,
                    balance |-> d[i].acc.balance,
                    transactions |-> DumpTransactions(d[i].acc.transactions)]]]

NoFile == [exists |-> FALSE, data |-> <<>>]
FileOf(data) == [exists |-> TRUE, data |-> data]

\* Mutation of save_data: an update in place, which keeps the members of the old
\* snapshot whose identifiers are not in the ledger.
save_data_keeps_old(d) ==
    FileOf(SelectSeq(file.data, LAMBDA m : ~Has(d, m.key)) \o DumpAccounts(d))

\* Bank.save_data: the file afterwards.
save_data(d) == FileOf(DumpAccounts(d))

KeyError(field) == Raise("KeyError", field)

\* Mutation of Loaded: the account is built with the holder name as its number.
Loaded_swapped(m) ==
    [Account(m.value.name, m.key, m.value.balance)
        EXCEPT !.transactions = LoadTransactions(m.value.transactions)]

\* The account load_data builds from one member of the snapshot.
Loaded(m) ==
    [Account(m.key, m.value.name, m.value.balance)
        EXCEPT !.transactions = LoadTransactions(m.value.transactions)]

\* The field of a member whose lookup fails first, "" when none does.
MissingField(m) ==
    IF "name" \notin m.value.has THEN "name"
    ELSE IF "balance" \notin m.value.has THEN "balance"
    ELSE IF "transactions" \notin m.value.has THEN "transactions"
    ELSE ""

\* The loop of load_data over the members from the i-th on.
RECURSIVE LoadMembers(_, _, _)
LoadMembers(d, data, i) ==
    IF i > Len(data) THEN [accounts |-> d, result |-> Ok]
    ELSE IF MissingField(data[i]) # ""
    THEN [accounts |-> d, result |-> KeyError(MissingField(data[i]))]
    ELSE LoadMembers(Put(d, data[i].key, Loaded(data[i])), data, i + 1)

\* Mutation of load_data: the snapshot replaces the ledger instead of merging into it.
load_data_replaces_ledger(d, f) ==
    IF ~f.exists THEN [accounts |-> d, result |-> Ok]
    ELSE LoadMembers(<<>>, f.data, 1)

\* Mutation of load_data: a missing file starts the ledger afresh, dropping the accounts.
load_data_starts_fresh(d, f) ==
    IF ~f.exists THEN [accounts |-> <<>>, result |-> Ok]
    ELSE LoadMembers(d, f.data, 1)

\* Bank.load_data: a missing file is reported and is no error.
load_data(d, f) ==
    IF ~f.exists THEN [accounts |-> d, result |-> Ok]
    ELSE LoadMembers(d, f.data, 1)

(***************************************************************************)
(* The state machine: a caller making any call of the Bank, in any order.  *)
(***************************************************************************)
NoAmount == [k |-> "none", v |-> 0]
Call(op, id, to, name, amount) ==
    [op |-> op, id |-> id, to |-> to, name |-> name, amount |-> amount]

\* What bank_data.json may hold when the program starts: nothing, the save of
\* an earlier run, or a snapshot edited by hand whose second member lacks a field.
EarlierRun ==
    FileOf(<< [key |-> "1001",
               value |-> [has |-> AllFields, name |-> "Ravi", balance |-> F(1),
                          transactions |-> << <<0, [verb |-> "Deposited", amount |-> F(1)]>> >>]] >>)
HandEdited ==
    FileOf(<< [key |-> "1002",
               value |-> [has |-> AllFields, name |-> "Asha", balance |-> F(3),
                          transactions |-> <<>>]],
              [key |-> "1001",
               value |-> [has |-> {"name", "transactions"}, name |-> "Asha", balance |-> F(0),
                          transactions |-> <<>>]] >>)
InitFiles == {NoFile, EarlierRun, HandEdited}

\* Bank.__init__, before any call.
Init ==
    /\ accounts = <<>>
    /\ file \in InitFiles
    /\ now = 0
    /\ last = Call("__init__", "", "", "", NoAmount)
    /\ result = Ok
    /\ calls = 0
    /\ pc = "api"

\* The readings datetime.now() may give after the reading t.
Readings(t) == {u \in t..MaxClock : u <= t + 1}

\* The bound on the histories.
Bounded(d) == \A i \in 1..Len(d) : Len(d[i].acc.transactions) <= MaxHist

Call_create_account ==
    \E id \in Ids, name \in Names, amount \in Amounts :
        LET r == create_account(accounts, id, name, amount)
        IN  /\ accounts' = r.accounts
            /\ result' = r.result
            /\ last' = Call("create_account", id, "", name, amount)
            /\ UNCHANGED <<file, now>>

Call_deposit_to_account ==
    \E id \in Ids, amount \in Amounts, ts \in Readings(now) :
        LET r == deposit_to_account(accounts, id, amount, ts)
        IN  /\ Bounded(r.accounts)
            /\ accounts' = r.accounts
            /\ result' = r.result
            /\ now' = IF r.result = Ok THEN ts ELSE now
            /\ last' = Call("deposit_to_account", id, "", "", amount)
            /\ UNCHANGED file

Call_withdraw_from_account ==
    \E id \in Ids, amount \in Amounts, ts \in Readings(now) :
        LET r == withdraw_from_account(accounts, id, amount, ts)
        IN  /\ Bounded(r.accounts)
            /\ accounts' = r.accounts
            /\ result' = r.result
            /\ now' = IF r.result = Ok THEN ts ELSE now
            /\ last' = Call("withdraw_from_account", id, "", "", amount)
            /\ UNCHANGED file

Call_transfer ==
    \E id \in Ids, to \in Ids, amount \in Amounts, t1 \in Readings(now) :
        \E t2 \in Readings(t1) :
            LET r == transfer(accounts, id, to, amount, t1, t2)
            IN  /\ Bounded(r.accounts)
                /\ accounts' = r.accounts
                /\ result' = r.result
                /\ now' = IF r.result = Ok THEN t2 ELSE now
                /\ last' = Call("transfer", id, to, "", amount)
                /\ UNCHANGED file

Call_view_account ==
    \E id \in Ids :
        LET r == view_account(accounts, id)
        IN  /\ accounts' = r.accounts
            /\ result' = r.result
            /\ last' = Call("view_account", id, "", "", NoAmount)
            /\ UNCHANGED <<file, now>>

Call_save_data ==
    /\ file' = save_data(accounts)
    /\ result' = Ok
    /\ last' = Call("save_data", "", "", "", NoAmount)
    /\ UNCHANGED <<accounts, now>>

Call_load_data ==
    LET r == load_data(accounts, file)
    IN  /\ accounts' = r.accounts
        /\ result' = r.result
        /\ last' = Call("load_data", "", "", "", NoAmount)
        /\ UNCHANGED <<file, now>>

\* Bank.get_account called by itself: reads, changes nothing.
Call_get_account ==
    \E id \in Ids :
        /\ result' = get_account(accounts, id)
        /\ last' = Call("get_account", id, "", "", NoAmount)
        /\ UNCHANGED <<accounts, file, now>>

\* One more call, within the bound on calls.
OneMore == calls < MaxCalls /\ calls' = calls + 1

\* One more call of the Bank made directly.
Counted == OneMore /\ UNCHANGED pc

Next ==
    \/ (Counted /\ Call_create_account)
    \/ (Counted /\ Call_deposit_to_account)
    \/ (Counted /\ Call_withdraw_from_account)
    \/ (Counted /\ Call_transfer)
    \/ (Counted /\ Call_view_account)
    \/ (Counted /\ Call_get_account)
    \/ (Counted /\ Call_save_data)
    \/ (Counted /\ Call_load_data)

Spec == Init /\ [][Next]_vars

(***************************************************************************)
(* The mutation calls alone, from any ledger whose balances are >= 0.      *)
(***************************************************************************)
StartBalances == {F(0), F(1), F(4), PosInf}
StartLedgers ==
    {<<>>}
    \cup {<<[key |-> "1001", acc |-> Account("1001", "Asha", b)]>> : b \in StartBalances}
    \cup {<<[key |-> "1001", acc |-> Account("1001", "Asha", b)],
            [key |-> "1002", acc |-> Account("1002", "Ravi", c)]>> :
              b \in StartBalances, c \in StartBalances}

InitMut ==
    /\ accounts \in StartLedgers
    /\ file = NoFile
    /\ now = 0
    /\ last = Call("__init__", "", "", "", NoAmount)
    /\ result = Ok
    /\ calls = 0
    /\ pc = "api"

NextMut ==
    \/ (Counted /\ Call_deposit_to_account)
    \/ (Counted /\ Call_withdraw_from_account)
    \/ (Counted /\ Call_transfer)

SpecMut == InitMut /\ [][NextMut]_vars

(***************************************************************************)
(* main(): the load at the start, then the menu loop, one choice a pass.   *)
(* pc is "start" before the load, "menu" at the prompt for the choice,     *)
(* "done" after the break and "crashed" when an exception has left main(). *)
(***************************************************************************)
EOFError == Raise("EOFError", "EOF when reading a line")
ValueError == Raise("ValueError", "could not convert string to float")
PermissionError == Raise("PermissionError", "Permission denied")
Choices == {"1", "2", "3", "4", "5"}
Terminated == {"done", "crashed"}

InitMain ==
    /\ accounts = <<>>
    /\ file \in InitFiles
    /\ now = 0
    /\ last = Call("__init__", "", "", "", NoAmount)
    /\ result = Ok
    /\ calls = 0
    /\ pc = "start"

\* bank.load_data() before the loop, outside the try: its exception leaves main().
Main_load ==
    /\ pc = "start"
    /\ Call_load_data
    /\ pc' = IF result' = Ok THEN "menu" ELSE "crashed"
    /\ UNCHANGED calls

\* One pass of the loop that stays in it.
Pass == pc = "menu" /\ OneMore /\ pc' = "menu"

\* Choices "1" to "5" with inputs that are read: the call, its exception caught.
Main_create_account == Pass /\ Call_create_account
Main_deposit_to_account == Pass /\ Call_deposit_to_account
Main_withdraw_from_account == Pass /\ Call_withdraw_from_account
Main_transfer == Pass /\ Call_transfer
Main_view_account == Pass /\ Call_view_account

\* Choices "1" to "5" when an input() inside the try meets the end of the
\* input, or float() is given no number: caught, no call is made.
Main_bad_input ==
    /\ Pass
    /\ \E c \in Choices, e \in {EOFError, ValueError} :
          /\ c = "5" => e = EOFError
          /\ result' = e
          /\ last' = Call("input", c, "", "", NoAmount)
    /\ UNCHANGED <<accounts, file, now>>

\* Any other choice than "1" to "6".
Main_invalid_choice ==
    /\ Pass
    /\ result' = Ok
    /\ last' = Call("invalid_choice", "", "", "", NoAmount)
    /\ UNCHANGED <<accounts, file, now>>

\* Choice "6": save_data, then the break.
Main_exit ==
    /\ pc = "menu" /\ OneMore
    /\ Call_save_data
    /\ pc' = "done"

\* Choice "6" when open() in save_data refuses the file: caught, the loop goes on.
Main_exit_refused ==
    /\ Pass
    /\ result' = PermissionError
    /\ last' = Call("save_data", "", "", "", NoAmount)
    /\ UNCHANGED <<accounts, file, now>>

\* input() for the choice, outside the try, meets the end of the input: the
\* exception leaves main().
Main_choice_eof ==
    /\ pc = "menu" /\ OneMore
    /\ result' = EOFError
    /\ last' = Call("choice", "", "", "", NoAmount)
    /\ pc' = "crashed"
    /\ UNCHANGED <<accounts, file, now>>

NextMain ==
    \/ Main_load
    \/ Main_create_account
    \/ Main_deposit_to_account
    \/ Main_withdraw_from_account
    \/ Main_transfer
    \/ Main_view_account
    \/ Main_bad_input
    \/ Main_invalid_choice
    \/ Main_exit
    \/ Main_exit_refused
    \/ Main_choice_eof

SpecMain == InitMain /\ [][NextMain]_vars

(***************************************************************************)
(* What the properties speak of.                                           *)
(***************************************************************************)
Balance(d, k) == Get(d, k).balance
History(d, k) == Get(d, k).transactions
IsPrefix(s, t) == Len(s) <= Len(t) /\ \A i \in 1..Len(s) : s[i] = t[i]
\* The entries of a history, each as its time and its description.
Entries(h) == [i \in 1..Len(h) |-> <<h[i].ts, h[i].desc>>]
Failed(r) == r # Ok
IsFinite(x) == x.k = "fin"
\* balance >= 0, as Python decides it.
NonNegative(d) == \A k \in Keys(d) : Fle(F(0), Balance(d, k))

\* The identifiers in a snapshot.
FileKeys(f) == {f.data[i].key : i \in 1..Len(f.data)}

RECURSIVE SumOf(_, _)
\* The exact sum of the finite balances of the items from the i-th on.
SumOf(d, i) == IF i > Len(d) THEN 0 ELSE d[i].acc.balance.v + SumOf(d, i + 1)

(***************************************************************************)
(* The properties.  last', result' and accounts' are the call a step       *)
(* makes, its outcome and the ledger after it; accounts is the ledger      *)
(* before it.                                                              *)
(***************************************************************************)

\* C1: a transfer that fails, for whatever reason, leaves the accounts, their
\* balances and their histories exactly as they were before the call.
C1_TransferAllOrNothing ==
    [][(last'.op = "transfer" /\ Failed(result')) => accounts' = accounts]_vars

\* C1, reached: a transfer of an amount the source can pay, to a destination
\* that does not exist, has failed.
C1_Witness ==
    /\ last.op = "transfer"
    /\ result = AccountNotFoundError
    /\ Has(accounts, last.id) /\ ~Has(accounts, last.to)
    /\ ~NotPositive(last.amount)
    /\ ~Exceeds(last.amount, Balance(accounts, last.id))

\* C2: in every state reached from the empty ledger by any calls, every
\* balance is >= 0.
C2_BalancesNeverNegative == NonNegative(accounts)

\* C3: deposit, withdraw and transfer keep every balance >= 0 when every balance
\* was >= 0 before, and a rejected call changes no balance.
C3_MutationsKeepNonNegative ==
    [][NonNegative(accounts) =>
          /\ NonNegative(accounts')
          /\ Failed(result') =>
                \A k \in Keys(accounts) : Balance(accounts', k) = Balance(accounts, k)]_vars

\* C4: a successful transfer between accounts with finite balances takes exactly
\* amount from the source, adds exactly amount to the destination, leaves every
\* other account alone, and so keeps the sum of the balances.
C4_TransferConserves ==
    [][(/\ last'.op = "transfer" /\ result' = Ok /\ calls' = calls + 1
        /\ \A k \in Keys(accounts) : IsFinite(Balance(accounts, k))) =>
          /\ Balance(accounts', last'.id) = F(Balance(accounts, last'.id).v - last'.amount.v)
          /\ Balance(accounts', last'.to) = F(Balance(accounts, last'.to).v + last'.amount.v)
          /\ \A k \in Keys(accounts) \ {last'.id, last'.to} : Get(accounts', k) = Get(accounts, k)
          /\ SumOf(accounts', 1) = SumOf(accounts, 1)]_vars

\* C5: a deposit to or a withdrawal from an account of an amount <= 0 fails with
\* the error for a non-positive amount and changes neither balance nor history.
C5_NonPositiveRejected ==
    [][(/\ last'.op \in {"deposit_to_account", "withdraw_from_account"}
        /\ Has(accounts, last'.id)
        /\ Fle(last'.amount, F(0))) =>
          /\ result' = IF last'.op = "deposit_to_account"
                       THEN DepositNotPositive ELSE WithdrawalNotPositive
          /\ accounts' = accounts]_vars

\* C5, reached: a deposit of zero to an existing account was rejected.
C5_Witness ==
    /\ last.op = "deposit_to_account"
    /\ Has(accounts, last.id)
    /\ last.amount = F(0)
    /\ result = DepositNotPositive

\* C6: withdrawing exactly the balance b > 0 succeeds and leaves 0; withdrawing
\* more than the balance fails with insufficient funds and changes nothing.
C6_WithdrawBoundary ==
    [][(/\ last'.op = "withdraw_from_account" /\ calls' = calls + 1
        /\ Has(accounts, last'.id)
        /\ Fgt(Balance(accounts, last'.id), F(0))) =>
          /\ last'.amount = Balance(accounts, last'.id) =>
                result' = Ok /\ Balance(accounts', last'.id) = F(0)
          /\ Fgt(last'.amount, Balance(accounts, last'.id)) =>
                result' = InsufficientFundsError /\ accounts' = accounts]_vars

\* C7, as claimed: a transfer between different identifiers of an amount <= 0
\* fails with the error for a non-positive amount, whether or not the accounts exist.
C7_InvalidAmountAlways ==
    [][(last'.op = "transfer" /\ last'.id # last'.to /\ Fle(last'.amount, F(0))) =>
          result' = TransferNotPositive]_vars

\* C7, amended: a transfer between different identifiers of an amount <= 0 fails
\* with the error for a non-positive amount when both accounts exist, and with
\* account-not-found when either is missing.
C7_InvalidAmountWhenBothExist ==
    [][(last'.op = "transfer" /\ last'.id # last'.to /\ Fle(last'.amount, F(0))) =>
          result' = IF Has(accounts, last'.id) /\ Has(accounts, last'.to)
                    THEN TransferNotPositive ELSE AccountNotFoundError]_vars

\* C7, reached: a transfer of an amount <= 0 between two existing accounts was rejected.
C7_Witness ==
    /\ last.op = "transfer" /\ last.id # last.to
    /\ Has(accounts, last.id) /\ Has(accounts, last.to)
    /\ Fle(last.amount, F(0))
    /\ result = TransferNotPositive

\* C8: creating an account under an identifier already present fails with the
\* duplicate error and leaves that account and the rest of the ledger untouched.
C8_DuplicateRejected ==
    [][(last'.op = "create_account" /\ Has(accounts, last'.id)) =>
          result' = AccountExists /\ accounts' = accounts]_vars

\* C8, reached: a second creation under the identifier of an account with another
\* holder name was rejected.
C8_Witness ==
    /\ last.op = "create_account"
    /\ result = AccountExists
    /\ Has(accounts, last.id)
    /\ Get(accounts, last.id).name # last.name

\* C9: saving the ledger and loading the snapshot into a fresh empty ledger gives
\* the same identifiers and, for each, the same name, balance and history.
C9_SaveLoadRoundTrip ==
    LET fresh == load_data(<<>>, save_data(accounts)).accounts
    IN  /\ Keys(fresh) = Keys(accounts)
        /\ \A k \in Keys(accounts) :
              /\ Get(fresh, k).name = Get(accounts, k).name
              /\ Balance(fresh, k) = Balance(accounts, k)
              /\ History(fresh, k) = History(accounts, k)

C11_FailedCallsChangeNothing ==
    [][(last'.op \in {"create_account", "deposit_to_account", "withdraw_from_account",
                      "get_account", "view_account"}) =>
          /\ Failed(result') => accounts' = accounts
          /\ (last'.op # "create_account" /\ ~Has(accounts, last'.id)) =>
                result' = AccountNotFoundError /\ accounts' = accounts]_vars

\* C11, reached: a deposit of a positive amount to an identifier not in a ledger
\* that holds another account has failed with account-not-found.
C11_Witness ==
    /\ last.op = "deposit_to_account"
    /\ result = AccountNotFoundError
    /\ ~Has(accounts, last.id)
    /\ accounts # <<>>
    /\ ~NotPositive(last.amount)

\* C12: load_data of a file that does not exist returns normally and leaves the
\* accounts exactly as they were.
C12_LoadMissingFileKeepsLedger ==
    [][(last'.op = "load_data" /\ ~file.exists) =>
          result' = Ok /\ accounts' = accounts]_vars

\* C12, reached: load_data has returned with no file there and accounts in the ledger.
C12_Witness ==
    /\ last.op = "load_data"
    /\ ~file.exists
    /\ result = Ok
    /\ accounts # <<>>

\* C13: when a deposit of a finite amount > 0 to an account with a finite balance
\* >= 0 has succeeded, the withdrawal of the same amount that follows it succeeds
\* and gives back exactly the balance there was before the deposit.
C13_DepositThenWithdrawRestores ==
    [][(/\ last'.op = "deposit_to_account" /\ result' = Ok /\ calls' = calls + 1
        /\ IsFinite(last'.amount)
        /\ IsFinite(Balance(accounts, last'.id)) /\ Fle(F(0), Balance(accounts, last'.id))) =>
          LET wd == withdraw_from_account(accounts', last'.id, last'.amount, now')
          IN  /\ wd.result = Ok
              /\ Balance(wd.accounts, last'.id) = Balance(accounts, last'.id)]_vars

\* C14: a load_data that fails part-way leaves the accounts unchanged: no member
\* of the snapshot that precedes the malformed one has been put in the ledger.
C14_FailedLoadChangesNothing ==
    [][(last'.op = "load_data" /\ Failed(result')) => accounts' = accounts]_vars

\* C15: a load_data of an existing snapshot that succeeds leaves, for every
\* identifier in the snapshot, an account with the snapshot's name, balance and
\* whole history, replaced or created; every other account is as it was.
C15_LoadMerges ==
    [][(last'.op = "load_data" /\ result' = Ok /\ file.exists) =>
          /\ Keys(accounts') = Keys(accounts) \cup FileKeys(file)
          /\ \A i \in 1..Len(file.data) :
                LET m == file.data[i]
                IN  /\ Has(accounts', m.key)
                    /\ Get(accounts', m.key).name = m.value.name
                    /\ Balance(accounts', m.key) = m.value.balance
                    /\ Entries(History(accounts', m.key)) = m.value.transactions
          /\ \A k \in Keys(accounts) \ FileKeys(file) : Get(accounts', k) = Get(accounts, k)]_vars

\* C15, reached: a snapshot has been loaded into a ledger that holds an account
\* the snapshot does not have.
C15_Witness ==
    /\ last.op = "load_data"
    /\ result = Ok
    /\ file.exists
    /\ FileKeys(file) # {}
    /\ Keys(accounts) \ FileKeys(file) # {}

\* C16: after save_data the snapshot holds exactly the accounts of the ledger, each
\* with its name, balance and history, and nothing else; the ledger is unchanged.
C16_SaveIsFullDump ==
    [][(last'.op = "save_data" /\ result' = Ok) =>
          /\ file'.exists
          /\ Len(file'.data) = Len(accounts)
          /\ FileKeys(file') = Keys(accounts)
          /\ \A i \in 1..Len(file'.data) :
                LET m == file'.data[i]
                IN  /\ m.value.has = AllFields
                    /\ m.value.name = Get(accounts, m.key).name
                    /\ m.value.balance = Balance(accounts, m.key)
                    /\ m.value.transactions = Entries(History(accounts, m.key))
          /\ accounts' = accounts]_vars

\* C16, reached: a ledger with an account that has a history has been saved.
C16_Witness ==
    /\ last.op = "save_data"
    /\ result = Ok
    /\ file.exists
    /\ \E k \in Keys(accounts) : Len(History(accounts, k)) >= 1

\* The accounts a call acts on when it succeeds.
Targets(c, r) ==
    IF Failed(r) THEN {}
    ELSE IF c.op \in {"deposit_to_account", "withdraw_from_account"} THEN {c.id}
    ELSE IF c.op = "transfer" THEN {c.id, c.to}
    ELSE {}

\* h2 is h1 with exactly one entry appended.
OneMoreEntry(h1, h2) == Len(h2) = Len(h1) + 1 /\ IsPrefix(h1, h2)

\* What C17 says of the calls that succeed: a deposit or a withdrawal appends one
\* entry to its account, a transfer one to the source and one to the destination,
\* and a new account has an empty history.
OneEntryPerSuccess ==
    /\ \A k \in Targets(last', result') : OneMoreEntry(History(accounts, k), History(accounts', k))
    /\ (last'.op = "create_account" /\ result' = Ok) => History(accounts', last'.id) = <<>>

\* C17: one entry per successful deposit, withdrawal and transfer side, none at
\* creation, and no create, deposit, withdraw, transfer, view or save lengthens
\* the history of an account whose balance it does not change.
C17_OneEntryPerBalanceChange ==
    [][calls' = calls + 1 =>
          /\ OneEntryPerSuccess
          /\ last'.op # "load_data" =>
                \A k \in Keys(accounts) :
                    Balance(accounts', k) = Balance(accounts, k) =>
                        Len(History(accounts', k)) <= Len(History(accounts, k))]_vars

\* C18: across every step, load_data included, every identifier in the ledger
\* before the step is in it after the step, and in every state reached each
\* account stored under the key k has the account_number k.
C18_NeverDeletedKeysStable ==
    [][/\ Keys(accounts) \subseteq Keys(accounts')
       /\ \A i \in 1..Len(accounts') : accounts'[i].acc.account_number = accounts'[i].key]_vars

\* C18, reached: load_data has replaced an account of a ledger that holds another
\* account too, one the snapshot does not have.
C18_Witness ==
    /\ last.op = "load_data"
    /\ result = Ok
    /\ file.exists
    /\ Len(accounts) = 2
    /\ Keys(accounts) \ FileKeys(file) # {}
    /\ \E i \in 1..Len(accounts) :
          accounts[i].key \in FileKeys(file) /\ accounts[i].acc.account_number = accounts[i].key

\* C19, as claimed: across every step, load included, the holder name of each
\* account that exists before the step is the same after it.
C19_NameImmutable ==
    [][\A k \in Keys(accounts) :
          Has(accounts', k) /\ Get(accounts', k).name = Get(accounts, k).name]_vars

\* The members of a snapshot that load_data reads before it stops: all of them,
\* or those that precede the first member that lacks a field.
MembersRead(f) ==
    {i \in 1..Len(f.data) : \A j \in 1..i : MissingField(f.data[j]) = ""}

\* C19, amended: across every step of create, deposit, withdraw, transfer, view
\* and save the holder name of each account is the same afterwards; load_data
\* keeps the name of every account whose identifier is not among the members it
\* reads from the snapshot, and gives the others the snapshot's name.
C19_NameImmutableButLoad ==
    [][\A k \in Keys(accounts) :
          /\ Has(accounts', k)
          /\ Get(accounts', k).name =
                IF last'.op = "load_data" /\ \E i \in MembersRead(file) : file.data[i].key = k
                THEN file.data[CHOOSE i \in MembersRead(file) : file.data[i].key = k].value.name
                ELSE Get(accounts, k).name]_vars

\* C19, reached: a transfer has succeeded between two accounts held under
\* different names.
C19_Witness ==
    /\ last.op = "transfer"
    /\ result = Ok
    /\ Get(accounts, last.id).name # Get(accounts, last.to).name

\* The calls of the Bank the menu makes.
LedgerOps ==
    {"create_account", "deposit_to_account", "withdraw_from_account", "transfer",
     "view_account", "save_data"}

\* C20: a call of the Bank made from the menu loop that fails leaves the loop
\* running; the loop ends only by choice "6" with save_data done in that pass,
\* so every run that has ended has the final ledger in the file.
C20_MenuLoopOrdering ==
    [][/\ (pc = "menu" /\ last'.op \in LedgerOps /\ Failed(result')) => pc' = "menu"
       /\ (pc \notin Terminated /\ pc' \in Terminated) =>
             /\ pc = "menu" /\ pc' = "done"
             /\ last'.op = "save_data" /\ result' = Ok
             /\ accounts' = accounts
             /\ file' = save_data(accounts')]_vars

====
